---- MODULE Spec2Model ----
(***************************************************************************)
(* Model of the Hacker News scraper (src/main.py): an Orchestrator (main)  *)
(* fills a queue of listing URLs and runs one Worker (single mode) or a    *)
(* pool of Workers (--multithreaded).  Each Worker claims a URL, fetches   *)
(* and parses the listing, enriches every story of the page in one         *)
(* asyncio.TaskGroup, and extends the shared list all_stories.             *)
(***************************************************************************)
EXTENDS Integers, Sequences, FiniteSets, Bags, TLC

\* ------------------------------------------------------------------ bounds
\* Listing pages put on the queue (range(1, 101) in the source).
MaxPage == 3
\* Workers submitted to the pool (workers = 8 in the source).
NumWorkers == 2
\* Rows (".athing" elements) on one listing page.
MaxRows == 2
\* Rows ("tr.comtr" elements) on one item page.
MaxComments == 1

\* Rows of a markup handed to an extractor on its own.
MaxMarkupRows == 3

\* ------------------------------------------------------- values and text
\* Python's None / a missing tag or attribute, and a present value.
None == <<>>
Some(v) == <<v>>

\* Text is a sequence of one-character strings.
IsSpace(c) == c = " "

RECURSIVE LStrip(_)
LStrip(s) ==
    IF s = <<>> THEN <<>>
    ELSE IF IsSpace(Head(s)) THEN LStrip(Tail(s)) ELSE s

RECURSIVE RStrip(_)
RStrip(s) ==
    IF s = <<>> THEN <<>>
    ELSE IF IsSpace(s[Len(s)]) THEN RStrip(SubSeq(s, 1, Len(s) - 1)) ELSE s

\* str.strip()
Strip(s) == RStrip(LStrip(s))

\* Truthiness of an optional string: None and "" are both falsy.
Truthy(opt) == opt # None /\ opt[1] # <<>>

\* URL templates
BASE_URL(p) == <<"news?p=", p>>
ITEM_URL(id) == <<"item?id=", id>>

\* ------------------------------------------------------------ the site
\* Raw texts the site may serve inside a title anchor and an href.
RawTitles == { <<" ", "t", " ">> }
RawHrefs == { <<" ", "h">> }

\* The ".titleline > a" element of a row: absent, or an anchor whose href
\* attribute may itself be absent.
TitleTags ==
    {None} \cup
    { Some([text |-> x, href |-> h]) :
        x \in RawTitles, h \in {None} \cup { Some(y) : y \in RawHrefs } }

\* The rows the site may serve at position i of the listing at url: the id
\* attribute is absent, empty, or the item id of that position.
RowsAt(url, i) ==
    { [id |-> d, titleline |-> t] :
        d \in { None, Some(<<>>), Some(<<url[2], i>>) }, t \in TitleTags }

\* Listing markup: the sequence of its ".athing" elements in document order.
ListingPages(url) ==
    UNION { { html \in [1..k -> UNION { RowsAt(url, i) : i \in 1..k }] :
                \A i \in 1..k : html[i] \in RowsAt(url, i) } : k \in 0..MaxRows }

\* The "tr.comtr" row the site serves at position k of the item page of the
\* story with the given id: item pages are static, and over the items they
\* show rows with both elements, rows without the user element and rows
\* without the body element.
Letter(k) == <<"a", "b", "c", "d", "e", "f", "g", "h">>[((k - 1) % 8) + 1]

CommentRowAt(id, k) ==
    LET shape == (id[1] + id[2] + k) % 3
    IN [hnuser |-> IF shape = 1 THEN None ELSE Some(<<"u", Letter(k), " ">>),
        commtext |-> IF shape = 2 THEN None
                     ELSE Some(<< <<" ", "c">>, <<" ">>, <<Letter(k), " ">> >>)]

\* Item markup: the sequence of its "tr.comtr" elements in document order.
ItemPage(url) == [k \in 1..MaxComments |-> CommentRowAt(url[2], k)]

\* ------------------------------------------------------------- parsing
\* parse_stories: rows lacking a title anchor or a truthy id are skipped;
\* title_tag["href"] raises KeyError on an anchor without href.
RECURSIVE ParseStoryRows(_, _)
ParseStoryRows(rows, acc) ==
    IF rows = <<>> THEN [exc |-> "none", stories |-> acc]
    ELSE LET item == Head(rows)
             title_tag == item.titleline
             story_id == item.id
         IN IF title_tag # None /\ Truthy(story_id)
            THEN IF title_tag[1].href = None
                 THEN [exc |-> "KeyError", stories |-> <<>>]
                 ELSE ParseStoryRows(Tail(rows),
                        Append(acc, [id |-> story_id[1],
                                     title |-> Strip(title_tag[1].text),
                                     link |-> Strip(title_tag[1].href[1])]))
            ELSE ParseStoryRows(Tail(rows), acc)

parse_stories(html) == ParseStoryRows(html, <<>>)

\* Tag.get_text(separator=" ", strip=True): every fragment is stripped, empty
\* ones are dropped, the rest are joined by one space.
RECURSIVE GetText(_)
GetText(frags) ==
    IF frags = <<>> THEN <<>>
    ELSE LET first == Strip(Head(frags))
             rest == GetText(Tail(frags))
         IN IF first = <<>> THEN rest
            ELSE IF rest = <<>> THEN first
            ELSE first \o <<" ">> \o rest

\* Mutant of ParseCommentRows: each comment is put in front of the list.
RECURSIVE ParseCommentRows_Prepend(_, _)
ParseCommentRows_Prepend(rows, acc) ==
    IF rows = <<>> THEN acc
    ELSE LET row == Head(rows)
             user_tag == row.hnuser
             comment_tag == row.commtext
         IN IF user_tag # None /\ comment_tag # None
            THEN ParseCommentRows_Prepend(Tail(rows),
                   <<[user |-> Strip(user_tag[1]),
                      text |-> GetText(comment_tag[1])]>> \o acc)
            ELSE ParseCommentRows_Prepend(Tail(rows), acc)

\* parse_comments: rows lacking the user or the body element are skipped.
RECURSIVE ParseCommentRows(_, _)
ParseCommentRows(rows, acc) ==
    IF rows = <<>> THEN acc
    ELSE LET row == Head(rows)
             user_tag == row.hnuser
             comment_tag == row.commtext
         IN IF user_tag # None /\ comment_tag # None
            THEN ParseCommentRows(Tail(rows),
                   Append(acc, [user |-> Strip(user_tag[1]),
                                text |-> GetText(comment_tag[1])]))
            ELSE ParseCommentRows(Tail(rows), acc)

parse_comments(html) == ParseCommentRows(html, <<>>)

\* story["comments"] = ... : the dict gains (or overwrites) one key.
SetComments(story, comments) ==
    [id |-> story.id, title |-> story.title, link |-> story.link,
     comments |-> comments]

\* ---------------------------------------------------------------- state
VARIABLES
    page_count,     \* the number of listing pages main puts on the queue
    markup,         \* markup handed to an extractor on its own
    extracted,      \* what that extractor returned
    multithreaded,  \* the --multithreaded flag
    mainpc,         \* position of main
    output,         \* lines printed by main
    queue,          \* the Work Queue
    all_stories,    \* the Result Collection
    pc,             \* position of each worker
    page,           \* worker local: the claimed URL
    stories,        \* worker local: the stories of the current page
    tasks,          \* worker local: state of each task of the TaskGroup
    outcome,        \* how each worker ended
    claimed,        \* history: <<worker, url>> of every successful queue.get
    completed       \* history: bag of the stories whose TaskGroup exited cleanly

vars == << page_count, markup, extracted, multithreaded, mainpc, output, queue, all_stories, pc, page,
           stories, tasks, outcome, claimed, completed >>

WorkerIds == 1..NumWorkers

\* The workers the selected mode runs.
Pool == IF multithreaded THEN WorkerIds ELSE {1}

Terminal(w) == pc[w] \in {"halted", "failed"}

Init ==
    /\ page_count = MaxPage
    /\ markup = None
    /\ extracted = None
    /\ multithreaded \in BOOLEAN
    /\ mainpc = "populate"
    /\ output = <<>>
    /\ queue = <<>>
    /\ all_stories = <<>>
    /\ pc = [w \in WorkerIds |-> "idle"]
    /\ page = [w \in WorkerIds |-> None]
    /\ stories = [w \in WorkerIds |-> <<>>]
    /\ tasks = [w \in WorkerIds |-> <<>>]
    /\ outcome = [w \in WorkerIds |-> "running"]
    /\ claimed = <<>>
    /\ completed = EmptyBag

\* A run over a page range of any size up to MaxPage, the empty range
\* included (main's range(1, 101) with another upper limit).
InitAnyRange ==
    /\ page_count \in 0..MaxPage
    /\ markup = None
    /\ extracted = None
    /\ multithreaded \in BOOLEAN
    /\ mainpc = "populate"
    /\ output = <<>>
    /\ queue = <<>>
    /\ all_stories = <<>>
    /\ pc = [w \in WorkerIds |-> "idle"]
    /\ page = [w \in WorkerIds |-> None]
    /\ stories = [w \in WorkerIds |-> <<>>]
    /\ tasks = [w \in WorkerIds |-> <<>>]
    /\ outcome = [w \in WorkerIds |-> "running"]
    /\ claimed = <<>>
    /\ completed = EmptyBag

\* ------------------------------------------------------------------ main
\* main, lines 78-79: queue.put(BASE_URL.format(page)) for the next page.
Put ==
    /\ mainpc = "populate"
    /\ Len(queue) < page_count
    /\ queue' = Append(queue, BASE_URL(Len(queue) + 1))
    /\ UNCHANGED << page_count, markup, extracted, multithreaded, mainpc, output, all_stories, pc, page,
                    stories, tasks, outcome, claimed, completed >>

\* main, lines 80-82 and 87-88: the loop is over, the banner is printed.
SelectMode ==
    /\ mainpc = "populate"
    /\ Len(queue) = page_count
    /\ output' = Append(output, IF multithreaded THEN "Using multithreading"
                                                 ELSE "Using single thread")
    /\ mainpc' = IF multithreaded THEN "submit" ELSE "run"
    /\ UNCHANGED << page_count, markup, extracted, multithreaded, queue, all_stories, pc, page, stories,
                    tasks, outcome, claimed, completed >>

\* main, lines 85-86: executor.submit of the next worker; after the last
\* one the with block exits into shutdown(wait=True).
Submit(w) ==
    /\ mainpc = "submit"
    /\ pc[w] = "idle"
    /\ \A v \in 1..(w - 1) : pc[v] # "idle"
    /\ pc' = [pc EXCEPT ![w] = "start"]
    /\ mainpc' = IF w = NumWorkers THEN "join" ELSE "submit"
    /\ UNCHANGED << page_count, markup, extracted, multithreaded, output, queue, all_stories, page, stories,
                    tasks, outcome, claimed, completed >>

\* Mutant of Join: the pool is shut down without waiting for its workers.
Join_NoWait ==
    /\ mainpc = "join"
    /\ mainpc' = "report"
    /\ UNCHANGED << page_count, markup, extracted, multithreaded, output,
                    queue, all_stories, pc, page, stories, tasks, outcome,
                    claimed, completed >>

\* Mutant of Join: the result of every future is asked for, so the error
\* of a worker is re-raised in main.
Join_Reraise ==
    /\ mainpc = "join"
    /\ \A w \in WorkerIds : pc[w] \in {"halted", "failed"}
    /\ mainpc' = IF \E w \in WorkerIds : pc[w] = "failed" THEN "crashed"
                                                          ELSE "report"
    /\ UNCHANGED << page_count, markup, extracted, multithreaded, output, queue, all_stories, pc, page,
                    stories, tasks, outcome, claimed, completed >>

\* main, line 84: ThreadPoolExecutor.__exit__ returns once every submitted
\* call has ended; an exception of a call stays in its (dropped) Future.
Join ==
    /\ mainpc = "join"
    /\ \A w \in WorkerIds : Terminal(w)
    /\ mainpc' = "report"
    /\ UNCHANGED << page_count, markup, extracted, multithreaded, output, queue, all_stories, pc, page,
                    stories, tasks, outcome, claimed, completed >>

\* main, line 89: asyncio.run(worker(...)) is entered on the main thread.
Run ==
    /\ mainpc = "run"
    /\ pc' = [pc EXCEPT ![1] = "start"]
    /\ mainpc' = "await"
    /\ UNCHANGED << page_count, markup, extracted, multithreaded, output, queue, all_stories, page, stories,
                    tasks, outcome, claimed, completed >>

\* main, line 89: asyncio.run returns when the worker returned.
RunReturn ==
    /\ mainpc = "await"
    /\ pc[1] = "halted"
    /\ mainpc' = "report"
    /\ UNCHANGED << page_count, markup, extracted, multithreaded, output, queue, all_stories, pc, page,
                    stories, tasks, outcome, claimed, completed >>

\* Mutant of RunRaise: main logs the error of the worker and reports anyway.
RunRaise_Logged ==
    /\ mainpc = "await"
    /\ pc[1] = "failed"
    /\ mainpc' = "report"
    /\ output' = output
    /\ UNCHANGED << page_count, markup, extracted, multithreaded, queue,
                    all_stories, pc, page, stories, tasks, outcome, claimed,
                    completed >>

\* Mutant of RunRaise: main catches the error and goes on to its report.
RunRaise_Swallowed ==
    /\ mainpc = "await"
    /\ pc[1] = "failed"
    /\ mainpc' = "report"
    /\ UNCHANGED << page_count, markup, extracted, multithreaded, output, queue, all_stories, pc, page,
                    stories, tasks, outcome, claimed, completed >>

\* main, line 89: asyncio.run re-raises what the worker raised; nothing in
\* main catches it and the process ends with a traceback.
RunRaise ==
    /\ mainpc = "await"
    /\ pc[1] = "failed"
    /\ mainpc' = "crashed"
    /\ UNCHANGED << page_count, markup, extracted, multithreaded, output, queue, all_stories, pc, page,
                    stories, tasks, outcome, claimed, completed >>

\* main, lines 90-91: len(all_stories) is read and the speed line printed.
Report ==
    /\ mainpc = "report"
    /\ output' = Append(output, <<"Scraping speed", Len(all_stories)>>)
    /\ mainpc' = "done"
    /\ UNCHANGED << page_count, markup, extracted, multithreaded, queue, all_stories, pc, page, stories,
                    tasks, outcome, claimed, completed >>

\* ---------------------------------------------------------------- worker
\* The bag of the elements of a sequence.
SeqToBag(seq) ==
    [x \in { seq[i] : i \in DOMAIN seq } |->
        Cardinality({ i \in DOMAIN seq : seq[i] = x })]

\* worker, line 59 (entered through asyncio.run): the session is opened and
\* the loop is entered.
Start(w) ==
    /\ pc[w] = "start"
    /\ pc' = [pc EXCEPT ![w] = "claim"]
    /\ UNCHANGED << page_count, markup, extracted, multithreaded, mainpc, output, queue, all_stories, page,
                    stories, tasks, outcome, claimed, completed >>

\* Mutant of Claim: the head of the queue is read but not removed.
Claim_Peek(w) ==
    /\ pc[w] = "claim"
    /\ tasks' = [tasks EXCEPT ![w] = <<>>]
    /\ IF queue = <<>>
       THEN /\ pc' = [pc EXCEPT ![w] = "halted"]
            /\ outcome' = [outcome EXCEPT ![w] = "queue_empty"]
            /\ UNCHANGED << page, claimed >>
       ELSE /\ page' = [page EXCEPT ![w] = Head(queue)]
            /\ claimed' = Append(claimed, <<w, Head(queue)>>)
            /\ pc' = [pc EXCEPT ![w] = "fetch"]
            /\ UNCHANGED outcome
    /\ UNCHANGED << page_count, markup, extracted, multithreaded, mainpc, output, queue, all_stories,
                    stories, completed >>

\* Mutant of Claim: queue.get() blocks while the queue is empty.
Claim_Blocking(w) ==
    /\ pc[w] = "claim"
    /\ queue # <<>>
    /\ tasks' = [tasks EXCEPT ![w] = <<>>]
    /\ page' = [page EXCEPT ![w] = Head(queue)]
    /\ queue' = Tail(queue)
    /\ claimed' = Append(claimed, <<w, Head(queue)>>)
    /\ pc' = [pc EXCEPT ![w] = "fetch"]
    /\ UNCHANGED << page_count, markup, extracted, multithreaded, mainpc,
                    output, all_stories, stories, outcome, completed >>

\* worker, lines 61-66: a new TaskGroup, then queue.get(block=False).  Empty
\* breaks out of the loop and the worker returns; otherwise the head of the
\* queue is removed and its fetch is issued.
Claim(w) ==
    /\ pc[w] = "claim"
    /\ tasks' = [tasks EXCEPT ![w] = <<>>]
    /\ IF queue = <<>>
       THEN /\ pc' = [pc EXCEPT ![w] = "halted"]
            /\ outcome' = [outcome EXCEPT ![w] = "queue_empty"]
            /\ UNCHANGED << queue, page, claimed >>
       ELSE /\ page' = [page EXCEPT ![w] = Head(queue)]
            /\ queue' = Tail(queue)
            /\ claimed' = Append(claimed, <<w, Head(queue)>>)
            /\ pc' = [pc EXCEPT ![w] = "fetch"]
            /\ UNCHANGED outcome
    /\ UNCHANGED << page_count, markup, extracted, multithreaded, mainpc, output, all_stories, stories,
                    completed >>

\* worker, line 66: the listing fetch raises (timeout, connection error).
\* The TaskGroup has no task yet; the error leaves the loop and the worker.
ListingFails(w) ==
    /\ pc[w] = "fetch"
    /\ pc' = [pc EXCEPT ![w] = "failed"]
    /\ outcome' = [outcome EXCEPT ![w] = "NetworkError"]
    /\ UNCHANGED << page_count, markup, extracted, multithreaded, mainpc, output, queue, all_stories, page,
                    stories, tasks, claimed, completed >>

\* Mutant of ListingReturns: an empty page is a global stop signal, the
\* worker that sees it drains the queue before it leaves.
ListingReturns_GlobalStop(w) ==
    /\ pc[w] = "fetch"
    /\ \E html \in ListingPages(page[w]) :
         LET parsed == parse_stories(html)
         IN IF parsed.exc # "none"
            THEN /\ pc' = [pc EXCEPT ![w] = "failed"]
                 /\ outcome' = [outcome EXCEPT ![w] = parsed.exc]
                 /\ UNCHANGED << stories, tasks, queue >>
            ELSE /\ stories' = [stories EXCEPT ![w] = parsed.stories]
                 /\ IF parsed.stories = <<>>
                    THEN /\ pc' = [pc EXCEPT ![w] = "halted"]
                         /\ outcome' = [outcome EXCEPT ![w] = "no_stories"]
                         /\ queue' = <<>>
                         /\ UNCHANGED tasks
                    ELSE /\ pc' = [pc EXCEPT ![w] = "batch"]
                         /\ tasks' = [tasks EXCEPT ![w] =
                               [i \in 1..Len(parsed.stories) |-> "pending"]]
                         /\ UNCHANGED << outcome, queue >>
    /\ UNCHANGED << page_count, markup, extracted, multithreaded, mainpc, output, all_stories, page,
                    claimed, completed >>

\* Mutant of ListingReturns: an empty page is skipped (continue, not break).
ListingReturns_Continue(w) ==
    /\ pc[w] = "fetch"
    /\ \E html \in ListingPages(page[w]) :
         LET parsed == parse_stories(html)
         IN IF parsed.exc # "none"
            THEN /\ pc' = [pc EXCEPT ![w] = "failed"]
                 /\ outcome' = [outcome EXCEPT ![w] = parsed.exc]
                 /\ UNCHANGED << stories, tasks >>
            ELSE /\ stories' = [stories EXCEPT ![w] = parsed.stories]
                 /\ IF parsed.stories = <<>>
                    THEN /\ pc' = [pc EXCEPT ![w] = "claim"]
                         /\ UNCHANGED << tasks, outcome >>
                    ELSE /\ pc' = [pc EXCEPT ![w] = "batch"]
                         /\ tasks' = [tasks EXCEPT ![w] =
                               [i \in 1..Len(parsed.stories) |-> "pending"]]
                         /\ UNCHANGED outcome
    /\ UNCHANGED << page_count, markup, extracted, multithreaded, mainpc, output, queue, all_stories, page,
                    claimed, completed >>

\* worker, lines 66-71: the listing fetch returns markup.  parse_stories may
\* raise; zero stories break out of the loop; otherwise one task per story
\* is created and the worker waits in TaskGroup.__aexit__.
ListingReturns(w) ==
    /\ pc[w] = "fetch"
    /\ \E html \in ListingPages(page[w]) :
         LET parsed == parse_stories(html)
         IN IF parsed.exc # "none"
            THEN /\ pc' = [pc EXCEPT ![w] = "failed"]
                 /\ outcome' = [outcome EXCEPT ![w] = parsed.exc]
                 /\ UNCHANGED << stories, tasks >>
            ELSE /\ stories' = [stories EXCEPT ![w] = parsed.stories]
                 /\ IF parsed.stories = <<>>
                    THEN /\ pc' = [pc EXCEPT ![w] = "halted"]
                         /\ outcome' = [outcome EXCEPT ![w] = "no_stories"]
                         /\ UNCHANGED tasks
                    ELSE /\ pc' = [pc EXCEPT ![w] = "batch"]
                         /\ tasks' = [tasks EXCEPT ![w] =
                               [i \in 1..Len(parsed.stories) |-> "pending"]]
                         /\ UNCHANGED outcome
    /\ UNCHANGED << page_count, markup, extracted, multithreaded, mainpc, output, queue, all_stories, page,
                    claimed, completed >>

\* Mutant of TaskReturns: each task appends its story as soon as it has the
\* comments.
TaskReturns_Appends(w, i) ==
    /\ pc[w] = "batch"
    /\ i \in DOMAIN tasks[w]
    /\ tasks[w][i] = "pending"
    /\ LET comment_html == ItemPage(ITEM_URL(stories[w][i].id))
           enriched == SetComments(stories[w][i], parse_comments(comment_html))
       IN /\ stories' = [stories EXCEPT ![w][i] = enriched]
          /\ all_stories' = Append(all_stories, enriched)
    /\ tasks' = [tasks EXCEPT ![w][i] = "done"]
    /\ UNCHANGED << page_count, markup, extracted, multithreaded, mainpc,
                    output, queue, pc, page, outcome, claimed, completed >>

\* Mutant of TaskReturns: every task of the batch works on the story the
\* loop variable was last bound to.
TaskReturns_LastStory(w, i) ==
    /\ pc[w] = "batch"
    /\ i \in DOMAIN tasks[w]
    /\ tasks[w][i] = "pending"
    /\ LET last == Len(stories[w])
           comment_html == ItemPage(ITEM_URL(stories[w][last].id))
       IN stories' = [stories EXCEPT ![w][last] =
                        SetComments(@, parse_comments(comment_html))]
    /\ tasks' = [tasks EXCEPT ![w][i] = "done"]
    /\ UNCHANGED << page_count, markup, extracted, multithreaded, mainpc,
                    output, queue, all_stories, pc, page, outcome, claimed,
                    completed >>

\* fetch_story_with_comments, lines 53-55: the item fetch returns and the
\* parsed comments are stored in the story.
TaskReturns(w, i) ==
    /\ pc[w] = "batch"
    /\ i \in DOMAIN tasks[w]
    /\ tasks[w][i] = "pending"
    /\ LET comment_html == ItemPage(ITEM_URL(stories[w][i].id))
       IN stories' = [stories EXCEPT ![w][i] =
                        SetComments(@, parse_comments(comment_html))]
    /\ tasks' = [tasks EXCEPT ![w][i] = "done"]
    /\ UNCHANGED << page_count, markup, extracted, multithreaded, mainpc, output, queue, all_stories, pc,
                    page, outcome, claimed, completed >>

\* Mutant of TaskFails: the failure is recorded and no sibling is cancelled.
TaskFails_NoCancel(w, i) ==
    /\ pc[w] = "batch"
    /\ i \in DOMAIN tasks[w]
    /\ tasks[w][i] = "pending"
    /\ tasks' = [tasks EXCEPT ![w][i] = "failed"]
    /\ UNCHANGED << page_count, markup, extracted, multithreaded, mainpc, output, queue, all_stories, pc,
                    page, stories, outcome, claimed, completed >>

\* fetch_story_with_comments, line 53: the item fetch raises.  The
\* TaskGroup of line 61 records the error and cancels every task of the
\* group that has not finished.
TaskFails(w, i) ==
    /\ pc[w] = "batch"
    /\ i \in DOMAIN tasks[w]
    /\ tasks[w][i] = "pending"
    /\ tasks' = [tasks EXCEPT ![w] =
          [j \in DOMAIN tasks[w] |->
             IF j = i THEN "failed"
             ELSE IF tasks[w][j] = "pending" THEN "cancelling"
             ELSE tasks[w][j]]]
    /\ UNCHANGED << page_count, markup, extracted, multithreaded, mainpc, output, queue, all_stories, pc,
                    page, stories, outcome, claimed, completed >>

\* fetch_story_with_comments, line 53: a cancelled task is resumed with
\* CancelledError at its await and ends without touching its story.
TaskCancelled(w, i) ==
    /\ pc[w] = "batch"
    /\ i \in DOMAIN tasks[w]
    /\ tasks[w][i] = "cancelling"
    /\ tasks' = [tasks EXCEPT ![w][i] = "cancelled"]
    /\ UNCHANGED << page_count, markup, extracted, multithreaded, mainpc, output, queue, all_stories, pc,
                    page, stories, outcome, claimed, completed >>

\* Mutant of BatchExit: the wait ends with the first task that ends.
BatchExit_FirstCompleted(w) ==
    /\ pc[w] = "batch"
    /\ \E i \in DOMAIN tasks[w] : tasks[w][i] \in {"done", "failed", "cancelled"}
    /\ IF \E i \in DOMAIN tasks[w] : tasks[w][i] = "failed"
       THEN /\ pc' = [pc EXCEPT ![w] = "failed"]
            /\ outcome' = [outcome EXCEPT ![w] = "NetworkError"]
            /\ UNCHANGED completed
       ELSE /\ pc' = [pc EXCEPT ![w] = "extend"]
            /\ completed' = completed (+) SeqToBag(stories[w])
            /\ UNCHANGED outcome
    /\ UNCHANGED << page_count, markup, extracted, multithreaded, mainpc, output, queue, all_stories, page,
                    stories, tasks, claimed >>

\* Mutant of BatchExit: the errors of the tasks are collected and dropped.
BatchExit_IgnoreErrors(w) ==
    /\ pc[w] = "batch"
    /\ \A i \in DOMAIN tasks[w] : tasks[w][i] \in {"done", "failed", "cancelled"}
    /\ pc' = [pc EXCEPT ![w] = "extend"]
    /\ completed' = completed (+) SeqToBag(stories[w])
    /\ UNCHANGED << page_count, markup, extracted, multithreaded, mainpc, output, queue, all_stories, page,
                    stories, tasks, outcome, claimed >>

\* Mutant of BatchExit: the wait ends only when every task has returned.
BatchExit_WaitsForDone(w) ==
    /\ pc[w] = "batch"
    /\ \A i \in DOMAIN tasks[w] : tasks[w][i] = "done"
    /\ pc' = [pc EXCEPT ![w] = "extend"]
    /\ completed' = completed (+) SeqToBag(stories[w])
    /\ UNCHANGED << page_count, markup, extracted, multithreaded, mainpc, output, queue, all_stories, page,
                    stories, tasks, outcome, claimed >>

\* worker, line 61: TaskGroup.__aexit__ returns once every task has ended;
\* it raises the collected errors, which leave the loop and the worker.
BatchExit(w) ==
    /\ pc[w] = "batch"
    /\ \A i \in DOMAIN tasks[w] : tasks[w][i] \in {"done", "failed", "cancelled"}
    /\ IF \E i \in DOMAIN tasks[w] : tasks[w][i] = "failed"
       THEN /\ pc' = [pc EXCEPT ![w] = "failed"]
            /\ outcome' = [outcome EXCEPT ![w] = "NetworkError"]
            /\ UNCHANGED completed
       ELSE /\ pc' = [pc EXCEPT ![w] = "extend"]
            /\ completed' = completed (+) SeqToBag(stories[w])
            /\ UNCHANGED outcome
    /\ UNCHANGED << page_count, markup, extracted, multithreaded, mainpc, output, queue, all_stories, page,
                    stories, tasks, claimed >>

\* Mutant of Extend: the shared list is replaced by the page's stories.
Extend_Overwrite(w) ==
    /\ pc[w] = "extend"
    /\ all_stories' = stories[w]
    /\ pc' = [pc EXCEPT ![w] = "claim"]
    /\ UNCHANGED << page_count, markup, extracted, multithreaded, mainpc, output, queue, page, stories,
                    tasks, outcome, claimed, completed >>

\* worker, line 72: all_stories.extend(stories), then the next iteration.
Extend(w) ==
    /\ pc[w] = "extend"
    /\ all_stories' = all_stories \o stories[w]
    /\ pc' = [pc EXCEPT ![w] = "claim"]
    /\ UNCHANGED << page_count, markup, extracted, multithreaded, mainpc, output, queue, page, stories,
                    tasks, outcome, claimed, completed >>

\* ------------------------------------------------------------ behaviours
WorkerStep(w) ==
    \/ Start(w)
    \/ Claim(w)
    \/ ListingFails(w)
    \/ ListingReturns(w)
    \/ \E i \in 1..MaxRows : TaskReturns(w, i)
    \/ \E i \in 1..MaxRows : TaskFails(w, i)
    \/ \E i \in 1..MaxRows : TaskCancelled(w, i)
    \/ BatchExit(w)
    \/ Extend(w)

Next ==
    \/ Put
    \/ SelectMode
    \/ \E w \in WorkerIds : Submit(w)
    \/ Join
    \/ Run
    \/ RunReturn
    \/ RunRaise
    \/ Report
    \/ \E w \in WorkerIds : WorkerStep(w)

Spec == Init /\ [][Next]_vars

\* The steps of main.
MainStep ==
    \/ Put
    \/ SelectMode
    \/ \E w \in WorkerIds : Submit(w)
    \/ Join
    \/ Run
    \/ RunReturn
    \/ RunRaise
    \/ Report

\* Runs over any page range.
SpecAnyRange == InitAnyRange /\ [][Next]_vars

\* The same runs under the scheduling the program relies on: the main
\* thread and every worker thread keep being scheduled, the event loop of a
\* worker runs what is ready, and every fetch returns or raises within its
\* timeout (line 14).
FairSpec ==
    /\ SpecAnyRange
    /\ WF_vars(MainStep)
    /\ \A w \in WorkerIds : WF_vars(WorkerStep(w))

\* ----------------------------------------------------- extractors alone
\* Listing markup of up to MaxMarkupRows rows, each of any shape.
ListingMarkup ==
    UNION { { html \in [1..k -> UNION { RowsAt(BASE_URL(1), i) : i \in 1..k }] :
                \A i \in 1..k : html[i] \in RowsAt(BASE_URL(1), i) } :
            k \in 0..MaxMarkupRows }

\* The shapes of a "tr.comtr" row at position k: each of the user element
\* and the body element is present or not.
CommentRowsAt(k) ==
    { [hnuser |-> u, commtext |-> b] :
        u \in { None, Some(<<"u", Letter(k), " ">>) },
        b \in { None, Some(<< <<" ", "c">>, <<" ">>, <<Letter(k), " ">> >>) } }

\* Item markup of up to MaxMarkupRows rows, each of any shape.
CommentMarkup ==
    UNION { { html \in [1..k -> UNION { CommentRowsAt(i) : i \in 1..k }] :
                \A i \in 1..k : html[i] \in CommentRowsAt(i) } :
            k \in 0..MaxMarkupRows }

\* An extractor is about to be called on some markup; nothing else runs.
InitExtract ==
    /\ page_count = MaxPage
    /\ markup \in { [kind |-> "listing", rows |-> h] : h \in ListingMarkup }
                  \cup { [kind |-> "item", rows |-> h] : h \in CommentMarkup }
    /\ extracted = None
    /\ multithreaded = FALSE
    /\ mainpc = "populate"
    /\ output = <<>>
    /\ queue = <<>>
    /\ all_stories = <<>>
    /\ pc = [w \in WorkerIds |-> "idle"]
    /\ page = [w \in WorkerIds |-> None]
    /\ stories = [w \in WorkerIds |-> <<>>]
    /\ tasks = [w \in WorkerIds |-> <<>>]
    /\ outcome = [w \in WorkerIds |-> "running"]
    /\ claimed = <<>>
    /\ completed = EmptyBag

\* parse_stories(html), lines 18-31.
ExtractStories ==
    /\ markup.kind = "listing"
    /\ extracted = None
    /\ extracted' = Some(parse_stories(markup.rows))
    /\ UNCHANGED << page_count, markup, multithreaded, mainpc, output, queue,
                    all_stories, pc, page, stories, tasks, outcome, claimed,
                    completed >>

\* parse_comments(html), lines 34-47.
ExtractComments ==
    /\ markup.kind = "item"
    /\ extracted = None
    /\ extracted' = Some(parse_comments(markup.rows))
    /\ UNCHANGED << page_count, markup, multithreaded, mainpc, output, queue,
                    all_stories, pc, page, stories, tasks, outcome, claimed,
                    completed >>

NextExtract ==
    \/ ExtractStories
    \/ ExtractComments

SpecExtract == InitExtract /\ [][NextExtract]_vars

\* ================================================================ claims
\* Helpers of the properties below.
Running(w) == pc[w] \in {"fetch", "batch", "extend"}

\* The URLs delivered to worker w, in delivery order.
RECURSIVE ClaimsOf(_, _)
ClaimsOf(w, hist) ==
    IF hist = <<>> THEN <<>>
    ELSE IF Head(hist)[1] = w THEN <<Head(hist)[2]>> \o ClaimsOf(w, Tail(hist))
    ELSE ClaimsOf(w, Tail(hist))

\* The page number a story was extracted from.
PageOf(story) == story.id[1]

\* No story of the page at url is in the Result Collection.
NothingAppendedFrom(url) ==
    \A k \in DOMAIN all_stories : PageOf(all_stories[k]) # url[2]

\* The queue holds exactly the pages after url, in order.
QueueIsRestAfter(url) ==
    queue = [k \in 1..(MaxPage - url[2]) |-> BASE_URL(url[2] + k)]

\* page[w] is the last URL delivered to w: w has claimed nothing since.
NoClaimSince(w) ==
    LET mine == ClaimsOf(w, claimed)
    IN mine # <<>> /\ mine[Len(mine)] = page[w]

Unfinished(w, i) == tasks[w][i] \in {"pending", "cancelling"}

\* ------------------------------------------------------------------- C1
\* C1: every queue entry is claimed by at most one worker: no URL is
\* delivered twice (to the same or to another worker), two workers never
\* hold the same URL, a delivered URL is never back in the queue, and once
\* main has populated the queue its length never increases.
C1_AtMostOnceDelivery ==
    /\ [](/\ \A i, j \in DOMAIN claimed : i # j => claimed[i][2] # claimed[j][2]
          /\ \A i \in DOMAIN claimed, k \in DOMAIN queue : claimed[i][2] # queue[k]
          /\ \A w, v \in WorkerIds :
                w # v /\ Running(w) /\ Running(v) => page[w] # page[v])
    /\ [][mainpc # "populate" => Len(queue') <= Len(queue)]_vars

\* Both workers of the pool have claimed entries and the queue is drained.
C1_Witness ==
    /\ multithreaded
    /\ queue = <<>>
    /\ Len(claimed) = MaxPage
    /\ \E i, j \in DOMAIN claimed : claimed[i][1] # claimed[j][1]

\* ------------------------------------------------------------------- C2
\* C2: absent fetch errors a worker stops exactly when (a) the queue is
\* empty at its claim or (b) the page it just fetched yields zero stories,
\* and a stopped worker stays stopped and claims nothing more.
C2_HaltsExactlyOnEmptyQueueOrNoStories ==
    [][\A w \in WorkerIds :
         /\ (~Terminal(w) /\ Terminal(w)' /\ outcome'[w] # "NetworkError")
              => \/ pc[w] = "claim" /\ queue = <<>>
                 \/ pc[w] = "fetch" /\ stories'[w] = <<>>
                                    /\ outcome'[w] = "no_stories"
         /\ (pc[w] = "claim" /\ queue = <<>> /\ pc'[w] # pc[w]) => Terminal(w)'
         /\ Terminal(w) => Terminal(w)' /\ ClaimsOf(w, claimed') = ClaimsOf(w, claimed)
      ]_vars

\* ------------------------------------------------------------------- C3
\* C3: in pooled mode the zero-stories stop is per worker: the step in which
\* one worker halts on an empty page changes nothing of any other worker,
\* and a worker that comes to claim while the queue is non-empty is
\* delivered the head of the queue whatever the other workers ended with.
C3_StopIsPerWorker ==
    [][multithreaded =>
         \A w \in WorkerIds :
           /\ (outcome[w] # "no_stories" /\ outcome'[w] = "no_stories")
                => /\ \A v \in WorkerIds \ {w} :
                        /\ pc'[v] = pc[v] /\ outcome'[v] = outcome[v]
                        /\ tasks'[v] = tasks[v] /\ stories'[v] = stories[v]
                   /\ queue' = queue /\ mainpc' = mainpc
           /\ (pc[w] = "claim" /\ queue # <<>> /\ pc'[w] # "claim")
                => pc'[w] = "fetch" /\ page'[w] = Head(queue)
      ]_vars

\* One worker has halted on an empty page, and the other, having enriched
\* and appended a page, holds the page after the one that was empty.
C3_Witness ==
    /\ multithreaded
    /\ \E w, v \in WorkerIds :
         /\ outcome[w] = "no_stories"
         /\ pc[v] = "fetch"
         /\ page[v][2] > page[w][2]
         /\ all_stories # <<>>

\* ------------------------------------------------------------------- C4
\* The listing fetch worker w made last returned a page without stories.
ZeroStoriesSeen(w) ==
    /\ ClaimsOf(w, claimed) # <<>>
    /\ stories[w] = <<>>
    /\ pc[w] \notin {"fetch", "failed"}

\* C4: in single-worker mode, once a claimed page has yielded zero stories
\* nothing more is claimed, fetched or appended: the worker is halted, the
\* queue keeps exactly the entries after that page, nothing of that page is
\* in the Result Collection, and from then on neither queue, collection nor
\* worker changes while main goes on to its report.
C4_SingleStopsOnEmptyPage ==
    /\ []((~multithreaded /\ ZeroStoriesSeen(1))
            => /\ pc[1] = "halted"
               /\ outcome[1] = "no_stories"
               /\ NoClaimSince(1)
               /\ QueueIsRestAfter(page[1])
               /\ NothingAppendedFrom(page[1])
               /\ mainpc \in {"await", "report", "done"})
    /\ [][(~multithreaded /\ ZeroStoriesSeen(1))
            => UNCHANGED << queue, claimed, all_stories, pc, page, stories, tasks >>
      ]_vars

\* The run is over after an empty page, with entries left in the queue.
C4_Witness ==
    /\ ~multithreaded
    /\ outcome[1] = "no_stories"
    /\ queue # <<>>
    /\ mainpc = "done"

\* ------------------------------------------------------------------- C5
\* C5: the tasks of a page are created together, one per story, all before
\* any of them runs; and while any task of the batch is unfinished the
\* worker sits in the TaskGroup exit: nothing of the page is in the Result
\* Collection and the worker has claimed nothing since.
C5_BatchJointlyAwaited ==
    /\ [](\A w \in WorkerIds :
            /\ pc[w] \in {"batch", "extend"} => Len(tasks[w]) = Len(stories[w])
            /\ pc[w] = "extend" => \A i \in DOMAIN tasks[w] : tasks[w][i] = "done"
            /\ (\E i \in DOMAIN tasks[w] : Unfinished(w, i))
                 => /\ pc[w] = "batch"
                    /\ NothingAppendedFrom(page[w])
                    /\ NoClaimSince(w))
    /\ [][\A w \in WorkerIds :
            (pc[w] # "batch" /\ pc'[w] = "batch")
              => /\ Len(tasks'[w]) = Len(stories'[w])
                 /\ \A i \in DOMAIN tasks'[w] : tasks'[w][i] = "pending"
      ]_vars

\* A batch of two tasks of which one has finished and the other has not.
C5_Witness ==
    \E w \in WorkerIds :
        /\ pc[w] = "batch"
        /\ \E i, j \in DOMAIN tasks[w] :
             tasks[w][i] = "done" /\ tasks[w][j] = "pending"
        /\ queue # <<>>

\* ------------------------------------------------------------------- C6
\* C6: once every worker of the run has ended, the Result Collection holds,
\* as a multiset, exactly the stories of the pages whose TaskGroup exited
\* cleanly: concurrent extends lose and duplicate nothing.
C6_NoLostOrDuplicatedAppend ==
    (\A w \in Pool : Terminal(w)) => SeqToBag(all_stories) = completed

\* A finished pooled run in which both workers have appended stories.
C6_Witness ==
    /\ multithreaded
    /\ \A w \in Pool : Terminal(w)
    /\ \E a, b \in DOMAIN all_stories, i, j \in DOMAIN claimed :
         /\ claimed[i][1] # claimed[j][1]
         /\ PageOf(all_stories[a]) = claimed[i][2][2]
         /\ PageOf(all_stories[b]) = claimed[j][2][2]

\* ------------------------------------------------------------------- C7
\* C7: when a task of a page's batch has failed, the batch is lost: nothing
\* of that page is ever in the Result Collection, the worker claims nothing
\* more, and once the TaskGroup has exited the worker has ended with the
\* error.
C7_FailedTaskAbortsBatch ==
    \A w \in WorkerIds :
        (\E i \in DOMAIN tasks[w] : tasks[w][i] = "failed")
          => /\ pc[w] \in {"batch", "failed"}
             /\ pc[w] = "failed" => outcome[w] = "NetworkError"
             /\ NothingAppendedFrom(page[w])
             /\ NoClaimSince(w)

\* A worker has ended on a failed task whose sibling had completed, with
\* entries left in the queue.
C7_Witness ==
    \E w \in WorkerIds :
        /\ pc[w] = "failed"
        /\ \E i, j \in DOMAIN tasks[w] :
             tasks[w][i] = "failed" /\ tasks[w][j] = "done"
        /\ queue # <<>>

\* ------------------------------------------------------------------- C8
\* C8 as stated: no enrichment task is ever cancelled; the siblings of a
\* failed task run to their own completion.
C8_NoSiblingIsCancelled ==
    \A w \in WorkerIds : \A i \in DOMAIN tasks[w] :
        tasks[w][i] \notin {"cancelling", "cancelled"}

\* C8 amended: a failed fetch fails its own task, and the TaskGroup then
\* cancels every sibling still in flight: beside a failed task no task is
\* pending, a task is cancelled only beside a failed sibling, a cancelled
\* task never attaches comments, and a task that had completed keeps them.
C8_FailureCancelsSiblings ==
    \A w \in WorkerIds : \A j \in DOMAIN tasks[w] :
        /\ (\E i \in DOMAIN tasks[w] : tasks[w][i] = "failed")
             => tasks[w][j] # "pending"
        /\ tasks[w][j] \in {"cancelling", "cancelled"}
             => /\ \E i \in DOMAIN tasks[w] : tasks[w][i] = "failed"
                /\ "comments" \notin DOMAIN stories[w][j]
        /\ tasks[w][j] = "done" => "comments" \in DOMAIN stories[w][j]

\* A batch has exited with one task failed and its sibling cancelled.
C8_Witness ==
    \E w \in WorkerIds :
        /\ pc[w] = "failed"
        /\ \E i, j \in DOMAIN tasks[w] :
             tasks[w][i] = "failed" /\ tasks[w][j] = "cancelled"

\* ------------------------------------------------------------------- C9
\* C9: in pooled mode a NetworkError ends only the worker it was raised in:
\* the failing step changes nothing of any other worker, of the queue, of
\* the Result Collection or of main; a worker that comes to claim a
\* non-empty queue is delivered its head even though another has failed;
\* and main gets past the pool only when every worker has ended, never
\* through a crash.
C9_FailureIsPerWorker ==
    /\ [](multithreaded =>
            /\ mainpc # "crashed"
            /\ mainpc \in {"report", "done"} => \A w \in WorkerIds : Terminal(w))
    /\ [][multithreaded =>
            \A w \in WorkerIds :
              /\ (pc[w] # "failed" /\ pc'[w] = "failed")
                   => /\ \A v \in WorkerIds \ {w} :
                           /\ pc'[v] = pc[v] /\ outcome'[v] = outcome[v]
                           /\ tasks'[v] = tasks[v] /\ stories'[v] = stories[v]
                      /\ queue' = queue /\ all_stories' = all_stories
                      /\ mainpc' = mainpc
              /\ (\E v \in WorkerIds : pc[v] = "failed")
                   /\ pc[w] = "claim" /\ queue # <<>> /\ pc'[w] # "claim"
                   => pc'[w] = "fetch" /\ page'[w] = Head(queue)
      ]_vars

\* A pooled run has reported although one worker failed on a NetworkError,
\* the other having appended the stories of a later page.
C9_Witness ==
    /\ multithreaded
    /\ mainpc = "done"
    /\ \E w, v \in WorkerIds :
         /\ outcome[w] = "NetworkError"
         /\ outcome[v] = "queue_empty"
         /\ \E k \in DOMAIN all_stories : PageOf(all_stories[k]) > page[w][2]

\* ------------------------------------------------------------------ C10
\* C10: in single-worker mode a NetworkError of a listing fetch or of an
\* item fetch ends the worker and the run: nothing is claimed or appended
\* after it, the queue keeps the entries after the failing page, and main
\* never reaches its report: it can only crash.
C10_SingleFailureEndsRun ==
    /\ []((~multithreaded /\ outcome[1] = "NetworkError")
            => /\ pc[1] = "failed"
               /\ NoClaimSince(1)
               /\ QueueIsRestAfter(page[1])
               /\ NothingAppendedFrom(page[1])
               /\ mainpc \in {"await", "crashed"})
    /\ [][(~multithreaded /\ outcome[1] = "NetworkError")
            => /\ UNCHANGED << queue, claimed, all_stories, pc, output >>
               /\ mainpc' \in {mainpc, "crashed"}
      ]_vars

\* The run has crashed on a failed item fetch with entries left unclaimed.
C10_Witness ==
    /\ ~multithreaded
    /\ mainpc = "crashed"
    /\ \E i \in DOMAIN tasks[1] : tasks[1][i] = "failed"
    /\ queue # <<>>

\* ------------------------------------------------------------------ C11
\* The banner is the first printed line, the speed line the second.
SpeedLinePrinted == Len(output) > 1 /\ output[Len(output)][1] = "Scraping speed"

\* Some fetch of the run has raised a NetworkError.
SomeFetchFailed ==
    \E w \in WorkerIds :
        \/ outcome[w] = "NetworkError"
        \/ \E i \in DOMAIN tasks[w] : tasks[w][i] = "failed"

\* C11 as stated: in either mode, once a fetch has raised a NetworkError the
\* speed line is never printed.
C11_NoSummaryAfterFailure ==
    SomeFetchFailed => ~SpeedLinePrinted

\* C11 amended: in single-worker mode a run in which a fetch has raised a
\* NetworkError never prints the speed line; in pooled mode the error stays
\* with its worker, main never crashes, and when main is done the speed line
\* is printed with the number of stories in the Result Collection.
C11_SummaryOnlyLostInSingleMode ==
    /\ (~multithreaded /\ SomeFetchFailed) => ~SpeedLinePrinted /\ mainpc # "done"
    /\ multithreaded =>
         /\ mainpc # "crashed"
         /\ mainpc = "done" =>
              /\ SpeedLinePrinted
              /\ output[Len(output)][2] = Len(all_stories)

\* A pooled run has printed the speed line over the stories appended before
\* and after a worker failed on a NetworkError.
C11_Witness ==
    /\ multithreaded
    /\ SpeedLinePrinted
    /\ \E w \in WorkerIds : outcome[w] = "NetworkError"
    /\ output[Len(output)][2] > 0

\* ------------------------------------------------------------------ C12
\* C12: the story count is read only after every worker has finished: from
\* the moment main is at its report no worker of the run is between start
\* and end (none claims, fetches, awaits tasks or extends), no other worker
\* was ever started, and the printed count stays the length of the Result
\* Collection.
C12_ReadAfterAllWorkersFinished ==
    /\ [](mainpc \in {"report", "done"} =>
            /\ \A w \in Pool : Terminal(w)
            /\ \A w \in WorkerIds \ Pool : pc[w] = "idle"
            /\ \A w \in WorkerIds : \A i \in DOMAIN tasks[w] : ~Unfinished(w, i)
            /\ mainpc = "done" =>
                 SpeedLinePrinted /\ output[Len(output)][2] = Len(all_stories))
    /\ [][(mainpc \in {"report", "done"}) =>
            UNCHANGED << all_stories, queue, claimed, pc, tasks, stories >>
      ]_vars

\* A pooled run has reported stories that both workers appended.
C12_Witness ==
    /\ mainpc = "done"
    /\ multithreaded
    /\ \E i, j \in DOMAIN claimed :
         /\ claimed[i][1] # claimed[j][1]
         /\ \E a, b \in DOMAIN all_stories :
              /\ PageOf(all_stories[a]) = claimed[i][2][2]
              /\ PageOf(all_stories[b]) = claimed[j][2][2]
    /\ output[Len(output)][2] = Len(all_stories)

\* ------------------------------------------------------------------ C13
\* C13: a run on an empty Work Queue, in either mode: no worker ever issues
\* a fetch, fails or holds stories, each worker that runs halts on its first
\* claim, nothing is claimed or collected, main never crashes, the run does
\* get to its end, and the speed line it prints reports zero stories.
C13_EmptyQueueRunCompletes ==
    /\ [](page_count = 0 =>
            /\ queue = <<>> /\ claimed = <<>> /\ all_stories = <<>>
            /\ \A w \in WorkerIds :
                 /\ pc[w] \in {"idle", "start", "claim", "halted"}
                 /\ pc[w] = "halted" => outcome[w] = "queue_empty"
                 /\ stories[w] = <<>> /\ tasks[w] = <<>>
            /\ mainpc # "crashed"
            /\ mainpc = "done" =>
                 /\ SpeedLinePrinted /\ output[Len(output)][2] = 0
                 /\ \A w \in Pool : pc[w] = "halted")
    /\ (page_count = 0) ~> (mainpc = "done")

\* A pooled run on the empty queue has printed its speed line.
C13_Witness ==
    /\ page_count = 0
    /\ multithreaded
    /\ mainpc = "done"
    /\ SpeedLinePrinted
    /\ \A w \in WorkerIds : outcome[w] = "queue_empty"

\* ------------------------------------------------------------------ C14
\* C14: the step in which an enrichment task completes changes only the
\* comments of its own story: id, title and link stay, the comments become
\* what parse_comments returns for the item page of that id, and no other
\* story of the page, of another worker or of the Result Collection changes.
C14_EnricherSetsOnlyComments ==
    [][\A w \in WorkerIds : \A i \in DOMAIN tasks[w] :
         (tasks[w][i] = "pending" /\ tasks'[w][i] = "done")
           => /\ DOMAIN stories'[w][i] = {"id", "title", "link", "comments"}
              /\ stories'[w][i].id = stories[w][i].id
              /\ stories'[w][i].title = stories[w][i].title
              /\ stories'[w][i].link = stories[w][i].link
              /\ stories'[w][i].comments =
                   parse_comments(ItemPage(ITEM_URL(stories[w][i].id)))
              /\ \A j \in DOMAIN stories[w] \ {i} :
                   stories'[w][j] = stories[w][j]
              /\ \A v \in WorkerIds \ {w} : stories'[v] = stories[v]
              /\ all_stories' = all_stories
      ]_vars

\* A task has attached a comment to its story while the sibling story of
\* the page is still without comments.
C14_Witness ==
    \E w \in WorkerIds : \E i, j \in DOMAIN tasks[w] :
        /\ tasks[w][i] = "done"
        /\ stories[w][i].comments # <<>>
        /\ tasks[w][j] = "pending"
        /\ "comments" \notin DOMAIN stories[w][j]

\* ------------------------------------------------------------------ C15
\* A listing row with a title anchor and a row id.
WellFormedRow(row) == row.titleline # None /\ Truthy(row.id)

\* C15: for every listing markup parse_stories raises nothing and returns
\* one story per row that has a title anchor and a row id, in document
\* order, and nothing for the other rows; empty markup gives no story.
C15_StoriesOfWellFormedRows ==
    (extracted # None /\ markup.kind = "listing") =>
        LET result == extracted[1]
            rows == SelectSeq(markup.rows, WellFormedRow)
        IN /\ result.exc = "none"
           /\ Len(result.stories) = Len(rows)
           /\ \A k \in DOMAIN rows :
                /\ result.stories[k].id = rows[k].id[1]
                /\ result.stories[k].title = Strip(rows[k].titleline[1].text)

\* ------------------------------------------------------------------ C16
\* A comment row with both the user element and the body element.
CompleteCommentRow(row) == row.hnuser # None /\ row.commtext # None

\* C16: for every item markup parse_comments returns one comment per row
\* that has both elements, in document order: the k-th comment is made of
\* the k-th such row, and rows lacking an element leave no trace.
C16_CommentsOfCompleteRows ==
    (extracted # None /\ markup.kind = "item") =>
        LET result == extracted[1]
            rows == SelectSeq(markup.rows, CompleteCommentRow)
        IN /\ Len(result) = Len(rows)
           /\ \A k \in DOMAIN rows :
                result[k] = [user |-> Strip(rows[k].hnuser[1]),
                             text |-> GetText(rows[k].commtext[1])]

\* Three rows of which the middle one lacks an element gave two comments.
C16_Witness ==
    /\ extracted # None
    /\ markup.kind = "item"
    /\ Len(markup.rows) = MaxMarkupRows
    /\ CompleteCommentRow(markup.rows[1])
    /\ \E k \in 2..(MaxMarkupRows - 1) : ~CompleteCommentRow(markup.rows[k])
    /\ CompleteCommentRow(markup.rows[MaxMarkupRows])
    /\ Len(extracted[1]) > 1

\* ------------------------------------------------------------------ C17
\* The stories of listing page p in a sequence of stories.
StoriesFrom(p, seq) ==
    LET FromP(story) == PageOf(story) = p
    IN SelectSeq(seq, FromP)

\* The stories of listing page p whose TaskGroup exited cleanly.
CompletedFrom(p) ==
    [story \in { x \in DOMAIN completed : PageOf(x) = p } |-> completed[story]]

\* C17: in every state the Result Collection holds, of each listing page,
\* either nothing or all the stories extracted from it; every story in it
\* carries the comments of its item page; and nothing of a page is in it
\* while the worker that claimed the page still fetches it or awaits its
\* batch.
C17_PagesWholeAndEnriched ==
    /\ \A k \in DOMAIN all_stories :
         /\ "comments" \in DOMAIN all_stories[k]
         /\ all_stories[k].comments =
              parse_comments(ItemPage(ITEM_URL(all_stories[k].id)))
    /\ \A p \in 1..MaxPage :
         \/ StoriesFrom(p, all_stories) = <<>>
         \/ SeqToBag(StoriesFrom(p, all_stories)) = CompletedFrom(p)
    /\ \A w \in WorkerIds :
         pc[w] \in {"fetch", "batch"} => NothingAppendedFrom(page[w])

\* The two enriched stories of one page are in the Result Collection while
\* another worker has one story of its page enriched and one not.
C17_Witness ==
    /\ \E p \in 1..MaxPage : Len(StoriesFrom(p, all_stories)) > 1
    /\ \E w \in WorkerIds : \E i, j \in DOMAIN tasks[w] :
         /\ pc[w] = "batch"
         /\ tasks[w][i] = "done"
         /\ tasks[w][j] = "pending"

\* ------------------------------------------------------------------ C18
\* The pooled run is over: main is past the pool.
PooledRunEnded == multithreaded /\ mainpc \in {"report", "done"}

\* The number of workers that halted on a page without stories, which is
\* the number of claimed pages that were empty.
EmptyPagesClaimed == Cardinality({ w \in WorkerIds : outcome[w] = "no_stories" })

\* The claimed page at url was empty, or its stories are in the collection.
PageAccountedFor(url) ==
    \/ \E w \in WorkerIds : outcome[w] = "no_stories" /\ page[w] = url
    \/ StoriesFrom(url[2], all_stories) # <<>>

\* C18: when a pooled run ends with entries left in the queue, every worker
\* ended on a page without stories or on an error; and when a pooled run
\* ends without any fetch failure and with fewer empty claimed pages than
\* workers, every entry was claimed and the stories of every claimed page
\* that had stories are in the Result Collection.
C18_UnclaimedOnlyIfAllWorkersStopped ==
    /\ (PooledRunEnded /\ queue # <<>>)
         => \A w \in WorkerIds :
              outcome[w] \in {"no_stories", "NetworkError", "KeyError"}
    /\ (PooledRunEnded /\ ~SomeFetchFailed /\ EmptyPagesClaimed < NumWorkers)
         => /\ queue = <<>>
            /\ Len(claimed) = page_count
            /\ \A i \in DOMAIN claimed : PageAccountedFor(claimed[i][2])

\* ------------------------------------------------------------------ C19
\* The listing fetches made so far: one per claimed page, less the pages
\* claimed whose fetch has not returned yet.
ListingFetches ==
    Len(claimed) - Cardinality({ w \in WorkerIds : pc[w] = "fetch" })

\* Main is past its wait for the workers: past the pool's exit in pooled
\* mode, past asyncio.run (returned or raised) in single mode.
PastTheWait == mainpc \in {"report", "done", "crashed"}

\* C19: under fair scheduling, with every fetch returning or raising, every
\* worker of the run eventually halts for good and main eventually gets past
\* its wait for the workers, in both modes; and the number of listing pages
\* fetched never exceeds the number of entries put in the queue.
C19_RunTerminatesWithinQueueSize ==
    /\ <>[](\A w \in Pool : Terminal(w))
    /\ <>[]PastTheWait
    /\ [](ListingFetches <= page_count /\ Len(claimed) <= page_count)

\* A pooled run over the full range that ended although one worker died on a
\* failed story fetch, with every entry claimed.
C19_Witness ==
    /\ page_count = MaxPage
    /\ multithreaded
    /\ mainpc = "done"
    /\ \A w \in WorkerIds : Terminal(w)
    /\ \E w \in WorkerIds :
         /\ outcome[w] = "NetworkError"
         /\ \E i \in DOMAIN tasks[w] : tasks[w][i] = "failed"
    /\ ListingFetches = page_count

====
